---- MODULE Spec2Model ----
(***************************************************************************)
(* A model of scripts/fastapi_backend.py (DermaVision AI backend).         *)
(*                                                                         *)
(* Spec        : the server process - the single event loop that runs the  *)
(*               `async def` handlers /infer and /generate_report, the     *)
(*               lru_cache(maxsize=1) around load_pytorch_model, and the   *)
(*               Grad-CAM hooks on the shared model's last Conv2d layer.   *)
(* SpecAnalyze : the /analyze handler - the collaborator's reply, its      *)
(*               parsing and normalisation, and the fallback analysis.     *)
(***************************************************************************)
EXTENDS Integers, Sequences, FiniteSets, TLC

\* ------------------------------------------------------------------ bounds
NumReq == 2      \* request slots handled at the same time (slots are reused)
MaxLoads == 3    \* model objects created in one run of the process

MaxSymptoms == 2 \* length of a request's symptom list

Req == 1..NumReq
NoReq == 0
NoObj == 0
Objs == 1..MaxLoads

\* ------------------------------------------------------- the model files
\* The model files of the server's file system: a scripted model, a state_dict
\* of an EfficientNet-B0, and a path with no file.
NoPath == "none"
Paths == {"scripted.pth", "state_b0.pth", "missing.pth"}

VARIABLES
    torch,      \* the optional import block succeeded (torch is not None)
    envPath,    \* DERMA_MODEL_PATH or MODEL_PATH_DEFAULT: the path /generate_report uses
    running,    \* handlers executing right now (on the event-loop thread)
    pc,         \* each request slot's position in its handler
    kind,       \* "infer" | "report" | "none"
    path,       \* path of the load_pytorch_model call in progress
    model,      \* the model object the request holds (NoObj: none)
    callInfo,   \* what the request's load_pytorch_model call saw and did
    cachePath,  \* lru_cache(maxsize=1): the key of the single entry
    cacheObj,   \*                       and its value
    nobj,       \* model objects created so far
    firstObj,   \* per path: the object of its first successful load
    lastLoad,   \* the most recent successful execution of the load body
    fhooks,     \* per model object: forward hooks on its last Conv2d (by call)
    bhooks,     \* per model object: backward hooks on it
    fmaps,      \* per call: whose forward pass its feature_maps came from (0: None)
    grads,      \* per call: whose backward pass its gradients came from (0: None)
    camExit,    \* how compute_gradcam left: "none" | "ok" | "nocapture" | "fwd_raise" | "bwd_raise"
    camFrom,    \* the <<feature_maps, gradients>> the CAM was built from
    heat,       \* heatmap_b64: "None" | "cam" | "placeholder" | "original"
    symptoms,   \* req.symptoms: a list of "str" / "int" elements
    collab,     \* the collaborator in generate_report_via_llm: "absent", or its reply
    report,     \* generate_report_via_llm returned: "none" | "llm" | "local" | "raise"
    status,     \* HTTP status of the response (0: none yet)
    loadFailed, \* the request's load_pytorch_model call raised
    peerCam,    \* the model object another call built a CAM on while this request was in flight
    aPc,        \* /analyze: "off" | "start" | "called" | "fallback" | "done"
    aIn,        \* /analyze: what the try block met (collaborator, image, reply)
    aCalls,     \* /analyze: calls made to the collaborator so far
    aExc,       \* /analyze: the exception the try block raised ("none": none)
    aResp,      \* /analyze: the response
    ld,         \* load_pytorch_model run on its own: the file and the body's position
    tk          \* predict_from_pil_image's top-k run on its own: probs, topk, result

svars == <<torch, envPath, running, pc, kind, path, model, callInfo, cachePath,
           cacheObj, nobj, firstObj, lastLoad, fhooks, bhooks, fmaps, grads,
           camExit, camFrom, heat, symptoms, collab, report, status, loadFailed, peerCam>>

envv == <<torch, envPath>>
cachev == <<cachePath, cacheObj, nobj, firstObj, lastLoad>>
hookv == <<fhooks, bhooks, fmaps, grads>>
camv == <<camExit, camFrom>>
respv == <<heat, symptoms, collab, report, status, loadFailed>>

avars == <<aPc, aIn, aCalls, aExc, aResp>>

pvars == <<ld, tk>>

vars == <<svars, avars, pvars>>

NoIn == [configured |-> FALSE, image |-> "none", reply |-> "none",
         tier1 |-> <<>>, tier2 |-> <<>>]
NoResp == [kind |-> "none"]

NoCall == [p |-> NoPath, last |-> NoObj, before |-> NoObj, read |-> FALSE]

NoLoad == [pc |-> "off"]
NoTopk == [pc |-> "off"]

\* ------------------------------------------------------------ the loader

\* What the file at a path holds.
FileKind(p) ==
    CASE p = "scripted.pth" -> "scripted"
      [] p = "state_b0.pth" -> "state_b0"
      [] OTHER              -> "missing"

\* The architecture variants step 3 tries, in order.
tried == <<"efficientnet_b0", "tf_efficientnet_b0", "efficientnet_b2">>

\* timm.create_model + load_state_dict(strict=False) succeeds for a variant.
VariantFits(k, name) ==
    \/ k = "state_b0" /\ name \in {"efficientnet_b0", "tf_efficientnet_b0"}
    \/ k = "state_b2" /\ name = "efficientnet_b2"

\* The body of load_pytorch_model on a file of kind k (torch is not None):
\* the step that produced the model, or the exception that left the body.
LoadBodyResult(k) ==
    IF k = "missing" THEN [ok |-> FALSE, step |-> 0, err |-> "FileNotFoundError"]
    ELSE IF k = "scripted" THEN [ok |-> TRUE, step |-> 1, err |-> "none"]
    ELSE IF k = "corrupt" THEN [ok |-> FALSE, step |-> 2, err |-> "UnpicklingError"]
    ELSE IF k = "module" THEN [ok |-> TRUE, step |-> 2, err |-> "none"]
    ELSE IF k \in {"state_b0", "state_b2", "state_unknown"} THEN
        IF \E i \in 1..Len(tried) : VariantFits(k, tried[i])
        THEN [ok |-> TRUE, step |-> 3, err |-> "none"]
        ELSE [ok |-> FALSE, step |-> 3, err |-> "RuntimeError"]
    ELSE [ok |-> FALSE, step |-> 3, err |-> "RuntimeError"]

\* Fault: a wrapper that never finds its entry.
LruLookupMiss(p) == NoObj

\* functools.lru_cache(maxsize=1): the cached value for key p (NoObj: a miss).
LruLookup(p) == IF cachePath = p THEN cacheObj ELSE NoObj

\* ------------------------------------------------------- the event loop

\* Fault: handlers dispatched to worker threads, as `def` endpoints are.
CanScheduleThreaded == TRUE

\* Every handler is `async def` and calls the loader, the forward pass and
\* Grad-CAM directly: a handler is started or resumed only when no other
\* handler is executing.
CanSchedule == running = {}

Runnable == {"ready", "reading"}
InFlight(r) == pc[r] \notin {"idle", "done"}

\* A response is handed to the client before the loop does anything else.
NoneDone == \A q \in Req : pc[q] # "done"

Init ==
    /\ torch \in BOOLEAN
    /\ envPath \in Paths
    /\ running = {}
    /\ pc = [r \in Req |-> "idle"]
    /\ kind = [r \in Req |-> "none"]
    /\ path = [r \in Req |-> NoPath]
    /\ model = [r \in Req |-> NoObj]
    /\ callInfo = [r \in Req |-> NoCall]
    /\ cachePath = NoPath
    /\ cacheObj = NoObj
    /\ nobj = 0
    /\ firstObj = [p \in Paths |-> NoObj]
    /\ lastLoad = [p |-> NoPath, obj |-> NoObj]
    /\ fhooks = [o \in Objs |-> {}]
    /\ bhooks = [o \in Objs |-> {}]
    /\ fmaps = [r \in Req |-> NoReq]
    /\ grads = [r \in Req |-> NoReq]
    /\ camExit = [r \in Req |-> "none"]
    /\ camFrom = [r \in Req |-> <<NoReq, NoReq>>]
    /\ heat = [r \in Req |-> "None"]
    /\ symptoms = [r \in Req |-> <<>>]
    /\ collab = [r \in Req |-> "none"]
    /\ report = [r \in Req |-> "none"]
    /\ status = [r \in Req |-> 0]
    /\ loadFailed = [r \in Req |-> FALSE]
    /\ peerCam = [r \in Req |-> NoObj]
    /\ aPc = "off" /\ aIn = NoIn /\ aCalls = 0 /\ aExc = "none" /\ aResp = NoResp
    /\ ld = NoLoad /\ tk = NoTopk

\* A client sends a request; the server accepts it and schedules its handler.
Arrive(r) ==
    /\ UNCHANGED <<avars, pvars>>
    /\ NoneDone
    /\ pc[r] = "idle"
    /\ nobj + Cardinality({q \in Req : InFlight(q)}) < MaxLoads
    /\ \E k \in {"infer", "report"} : kind' = [kind EXCEPT ![r] = k]
    /\ pc' = [pc EXCEPT ![r] = "ready"]
    /\ UNCHANGED <<envv, running, path, model, callInfo, cachev, hookv, camv, respv,
                   peerCam>>

\* The event loop starts a handler, or resumes one whose file.read() completed.
LoopRun(r) ==
    /\ UNCHANGED <<avars, pvars>>
    /\ NoneDone
    /\ CanSchedule
    /\ pc[r] \in Runnable
    /\ running' = running \cup {r}
    /\ pc' = [pc EXCEPT ![r] = IF pc[r] = "reading" THEN "i_open"
                                ELSE IF kind[r] = "infer" THEN "i_start" ELSE "g_start"]
    /\ UNCHANGED <<envv, kind, path, model, callInfo, cachev, hookv, camv, respv, peerCam>>

\* The handler returns its response or raises HTTPException.
Respond(r, st) ==
    /\ pc' = [pc EXCEPT ![r] = "done"]
    /\ status' = [status EXCEPT ![r] = st]
    /\ running' = running \ {r}
    /\ path' = [path EXCEPT ![r] = NoPath]
    /\ model' = [model EXCEPT ![r] = NoObj]
    /\ callInfo' = [callInfo EXCEPT ![r] = NoCall]

\* The slot is free for the next request.
Reset(r) ==
    /\ UNCHANGED <<avars, pvars>>
    /\ pc[r] = "done"
    /\ pc' = [pc EXCEPT ![r] = "idle"]
    /\ kind' = [kind EXCEPT ![r] = "none"]
    /\ camExit' = [camExit EXCEPT ![r] = "none"]
    /\ camFrom' = [camFrom EXCEPT ![r] = <<NoReq, NoReq>>]
    /\ fmaps' = [fmaps EXCEPT ![r] = NoReq]
    /\ grads' = [grads EXCEPT ![r] = NoReq]
    /\ heat' = [heat EXCEPT ![r] = "None"]
    /\ symptoms' = [symptoms EXCEPT ![r] = <<>>]
    /\ collab' = [collab EXCEPT ![r] = "none"]
    /\ report' = [report EXCEPT ![r] = "none"]
    /\ status' = [status EXCEPT ![r] = 0]
    /\ loadFailed' = [loadFailed EXCEPT ![r] = FALSE]
    /\ peerCam' = [peerCam EXCEPT ![r] = NoObj]
    /\ UNCHANGED <<envv, running, path, model, callInfo, cachev, fhooks, bhooks>>

\* ------------------------------------------------------------- /infer

\* infer_model up to its first await, or up to the decoded image bytes.
InferStart(r) ==
    /\ UNCHANGED <<avars, pvars>>
    /\ NoneDone /\ r \in running /\ pc[r] = "i_start"
    /\ \/ /\ ~torch
          /\ Respond(r, 500)
          /\ UNCHANGED <<envv, kind, cachev, hookv, camv, heat, symptoms, collab, report,
                         loadFailed, peerCam>>
       \/ /\ torch
          /\ \E img \in {"file", "b64", "badb64", "none"} :
               \/ /\ img = "file"        \* await file.read()
                  /\ pc' = [pc EXCEPT ![r] = "reading"]
                  /\ running' = running \ {r}
                  /\ UNCHANGED <<envv, kind, path, model, callInfo, cachev, hookv,
                                 camv, respv, peerCam>>
               \/ /\ img = "b64"
                  /\ pc' = [pc EXCEPT ![r] = "i_open"]
                  /\ UNCHANGED <<envv, running, kind, path, model, callInfo, cachev,
                                 hookv, camv, respv, peerCam>>
               \/ /\ img \in {"badb64", "none"}
                  /\ Respond(r, IF img = "none" THEN 400 ELSE 500)
                  /\ UNCHANGED <<envv, kind, cachev, hookv, camv, heat, symptoms,
                                 collab, report, loadFailed, peerCam>>

\* Image.open(...).convert('RGB')
InferOpen(r) ==
    /\ UNCHANGED <<avars, pvars>>
    /\ NoneDone /\ r \in running /\ pc[r] = "i_open"
    /\ \E ok \in BOOLEAN :
         \/ /\ ok
            /\ pc' = [pc EXCEPT ![r] = "i_load"]
            /\ UNCHANGED <<envv, running, kind, path, model, callInfo, cachev, hookv,
                           camv, respv, peerCam>>
         \/ /\ ~ok
            /\ Respond(r, 500)
            /\ UNCHANGED <<envv, kind, cachev, hookv, camv, heat, symptoms, collab, report,
                           loadFailed, peerCam>>

\* ------------------------------------------------- load_pytorch_model

AfterLoad(r) == IF kind[r] = "infer" THEN "i_predict" ELSE "g_prep"

\* The call through the lru_cache wrapper: a hit returns the cached tuple, a
\* miss enters the body. /infer passes the request's model_path (or the
\* environment's), /generate_report the environment's.
LoadCall(r) ==
    /\ UNCHANGED <<avars, pvars>>
    /\ NoneDone /\ r \in running /\ pc[r] \in {"i_load", "g_load"}
    /\ \E p \in (IF kind[r] = "infer" THEN Paths ELSE {envPath}) :
         LET info == [p |-> p,
                      last |-> IF lastLoad.p = p THEN lastLoad.obj ELSE NoObj,
                      before |-> firstObj[p],
                      read |-> FALSE]
         IN  /\ callInfo' = [callInfo EXCEPT ![r] = info]
             /\ IF LruLookup(p) # NoObj
                THEN /\ model' = [model EXCEPT ![r] = LruLookup(p)]
                     /\ pc' = [pc EXCEPT ![r] = AfterLoad(r)]
                     /\ path' = path
                ELSE /\ path' = [path EXCEPT ![r] = p]
                     /\ pc' = [pc EXCEPT ![r] = "load_body"]
                     /\ model' = model
    /\ UNCHANGED <<envv, running, kind, cachev, hookv, camv, respv, peerCam>>

\* The body: the file is read and a model reconstructed, or an exception
\* leaves the call (nothing is cached then). A result replaces the single
\* cache entry.
LoadBody(r) ==
    /\ UNCHANGED <<avars, pvars>>
    /\ NoneDone /\ r \in running /\ pc[r] = "load_body"
    /\ LET res == LoadBodyResult(FileKind(path[r]))
           obj == nobj + 1
       IN  \/ /\ res.ok
              /\ nobj < MaxLoads
              /\ nobj' = obj
              /\ cachePath' = path[r]
              /\ cacheObj' = obj
              /\ firstObj' = IF firstObj[path[r]] = NoObj
                             THEN [firstObj EXCEPT ![path[r]] = obj] ELSE firstObj
              /\ lastLoad' = [p |-> path[r], obj |-> obj]
              /\ model' = [model EXCEPT ![r] = obj]
              /\ callInfo' = [callInfo EXCEPT ![r].read = TRUE]
              /\ path' = [path EXCEPT ![r] = NoPath]
              /\ pc' = [pc EXCEPT ![r] = AfterLoad(r)]
              /\ UNCHANGED <<envv, running, kind, hookv, camv, respv, peerCam>>
           \/ /\ ~res.ok /\ kind[r] = "infer"       \* except Exception -> 500
              /\ Respond(r, 500)
              /\ loadFailed' = [loadFailed EXCEPT ![r] = TRUE]
              /\ UNCHANGED <<envv, kind, cachev, hookv, camv, heat, symptoms, collab, report,
                             peerCam>>
           \/ /\ ~res.ok /\ kind[r] = "report"      \* inner except -> placeholder
              /\ loadFailed' = [loadFailed EXCEPT ![r] = TRUE]
              /\ path' = [path EXCEPT ![r] = NoPath]
              /\ callInfo' = [callInfo EXCEPT ![r] = NoCall]
              /\ pc' = [pc EXCEPT ![r] = "g_placeholder"]
              /\ UNCHANGED <<envv, running, kind, model, cachev, hookv, camv, heat,
                             symptoms, collab, report, status, peerCam>>

\* A forward pass of request r through model object o: every forward hook on
\* the layer runs, whoever attached it, and stores this pass's output.
ForwardFires(r, o) == [q \in Req |-> IF q \in fhooks[o] THEN r ELSE fmaps[q]]

\* A backward pass of r through o: every backward hook on the layer runs.
BackwardFires(r, o) == [q \in Req |-> IF q \in bhooks[o] THEN r ELSE grads[q]]

\* predict_from_pil_image and the response of /infer.
InferPredict(r) ==
    /\ UNCHANGED <<avars, pvars>>
    /\ NoneDone /\ r \in running /\ pc[r] = "i_predict"
    /\ \E ok \in BOOLEAN :
         /\ fmaps' = IF ok THEN ForwardFires(r, model[r]) ELSE fmaps
         /\ Respond(r, IF ok THEN 200 ELSE 500)
    /\ UNCHANGED <<envv, kind, cachev, fhooks, bhooks, grads, camv, heat, symptoms,
                   collab, report, loadFailed, peerCam>>

\* --------------------------------------------------- /generate_report

Step(r, next) ==
    /\ pc' = [pc EXCEPT ![r] = next]
    /\ UNCHANGED running

\* The image is decoded; without torch the Grad-CAM block is skipped.
ReportStart(r) ==
    /\ UNCHANGED <<avars, pvars>>
    /\ NoneDone /\ r \in running /\ pc[r] = "g_start"
    /\ \E ok \in BOOLEAN :
         \/ /\ ok
            /\ Step(r, IF torch THEN "g_load" ELSE "g_llm")
            /\ UNCHANGED <<envv, kind, path, model, callInfo, cachev, hookv, camv,
                           respv, peerCam>>
         \/ /\ ~ok                   \* b64decode raises: outer except -> 500
            /\ Respond(r, 500)
            /\ UNCHANGED <<envv, kind, cachev, hookv, camv, heat, symptoms, collab, report,
                           loadFailed, peerCam>>

\* Image.open + image_preprocess_pil
ReportPreprocess(r) ==
    /\ UNCHANGED <<avars, pvars>>
    /\ NoneDone /\ r \in running /\ pc[r] = "g_prep"
    /\ \E ok \in BOOLEAN : Step(r, IF ok THEN "c_find" ELSE "g_placeholder")
    /\ callInfo' = [callInfo EXCEPT ![r] = NoCall]
    /\ UNCHANGED <<envv, kind, path, model, cachev, hookv, camv, respv, peerCam>>

\* compute_gradcam: find_last_conv_module, then both hooks are registered.
GradcamAttach(r) ==
    /\ UNCHANGED <<avars, pvars>>
    /\ NoneDone /\ r \in running /\ pc[r] = "c_find"
    /\ \E conv \in BOOLEAN :
         \/ /\ conv
            /\ fhooks' = [fhooks EXCEPT ![model[r]] = @ \cup {r}]
            /\ bhooks' = [bhooks EXCEPT ![model[r]] = @ \cup {r}]
            /\ Step(r, "c_fwd")
         \/ /\ ~conv                 \* RuntimeError('No Conv2d module found')
            /\ Step(r, "g_placeholder")
            /\ UNCHANGED <<fhooks, bhooks>>
    /\ UNCHANGED <<envv, kind, path, model, callInfo, cachev, fmaps, grads, camv,
                   respv, peerCam>>

\* out = model(input_tensor): raises, or runs the layer's forward hooks (when
\* the layer is on the executed path).
GradcamForward(r) ==
    /\ UNCHANGED <<avars, pvars>>
    /\ NoneDone /\ r \in running /\ pc[r] = "c_fwd"
    /\ \E out \in {"raise", "skipped", "ran"} :
         /\ fmaps' = IF out = "ran" THEN ForwardFires(r, model[r]) ELSE fmaps
         /\ camExit' = [camExit EXCEPT ![r] = IF out = "raise" THEN "fwd_raise" ELSE @]
         /\ Step(r, IF out = "raise" THEN "c_finally" ELSE "c_bwd")
    /\ UNCHANGED <<envv, kind, path, model, callInfo, cachev, fhooks, bhooks, grads,
                   camFrom, respv, peerCam>>

\* score.backward()
GradcamBackward(r) ==
    /\ UNCHANGED <<avars, pvars>>
    /\ NoneDone /\ r \in running /\ pc[r] = "c_bwd"
    /\ \E out \in {"raise", "skipped", "ran"} :
         /\ grads' = IF out = "ran" THEN BackwardFires(r, model[r]) ELSE grads
         /\ camExit' = [camExit EXCEPT ![r] = IF out = "raise" THEN "bwd_raise" ELSE @]
         /\ Step(r, IF out = "raise" THEN "c_finally" ELSE "c_cam")
    /\ UNCHANGED <<envv, kind, path, model, callInfo, cachev, fhooks, bhooks, fmaps,
                   camFrom, respv, peerCam>>

\* The capture check, then the CAM from the call's feature_maps and gradients.
GradcamBuild(r) ==
    /\ UNCHANGED <<avars, pvars>>
    /\ NoneDone /\ r \in running /\ pc[r] = "c_cam"
    /\ IF fmaps[r] = NoReq \/ grads[r] = NoReq
       THEN /\ camExit' = [camExit EXCEPT ![r] = "nocapture"]
            /\ UNCHANGED camFrom
       ELSE /\ camExit' = [camExit EXCEPT ![r] = "ok"]
            /\ camFrom' = [camFrom EXCEPT ![r] = <<fmaps[r], grads[r]>>]
    /\ peerCam' = [q \in Req |->
                     IF q # r /\ InFlight(q) /\ fmaps[r] # NoReq /\ grads[r] # NoReq
                     THEN model[r] ELSE peerCam[q]]
    /\ Step(r, "c_finally")
    /\ UNCHANGED <<envv, kind, path, model, callInfo, cachev, hookv, respv>>

\* Fault: the handles removed at the end of the try body, not in finally.
RemovesOnReturnOnly(r, hooks) == IF camExit[r] = "ok" THEN hooks \ {r} ELSE hooks

\* The hooks the finally block of call r removes from a layer's hook set.
FinallyRemoves(r, hooks) == hooks \ {r}

\* finally: fh.remove(), bh.remove(); then the return or the pending exception.
GradcamFinally(r) ==
    /\ UNCHANGED <<avars, pvars>>
    /\ NoneDone /\ r \in running /\ pc[r] = "c_finally"
    /\ fhooks' = [fhooks EXCEPT ![model[r]] = FinallyRemoves(r, @)]
    /\ bhooks' = [bhooks EXCEPT ![model[r]] = FinallyRemoves(r, @)]
    /\ Step(r, IF camExit[r] = "ok" THEN "g_composite" ELSE "g_placeholder")
    /\ UNCHANGED <<envv, kind, path, model, callInfo, cachev, fmaps, grads, camv,
                   respv, peerCam>>

\* make_heatmap_overlay_from_cam
ReportComposite(r) ==
    /\ UNCHANGED <<avars, pvars>>
    /\ NoneDone /\ r \in running /\ pc[r] = "g_composite"
    /\ \E ok \in BOOLEAN :
         /\ heat' = [heat EXCEPT ![r] = IF ok THEN "cam" ELSE @]
         /\ Step(r, IF ok THEN "g_llm" ELSE "g_placeholder")
    /\ UNCHANGED <<envv, kind, path, model, callInfo, cachev, hookv, camv, symptoms,
                   collab, report, status, loadFailed, peerCam>>

\* except Exception: generate_heatmap_overlay, which returns the drawn overlay
\* or, when drawing fails, the original image.
ReportPlaceholder(r) ==
    /\ UNCHANGED <<avars, pvars>>
    /\ NoneDone /\ r \in running /\ pc[r] = "g_placeholder"
    /\ \E drawn \in BOOLEAN :
         heat' = [heat EXCEPT ![r] = IF drawn THEN "placeholder" ELSE "original"]
    /\ Step(r, "g_llm")
    /\ UNCHANGED <<envv, kind, path, model, callInfo, cachev, hookv, camv, symptoms,
                   collab, report, status, loadFailed, peerCam>>

\* Lists of at most MaxSymptoms elements, each a string or not.
SymptomLists == UNION {[1..n -> {"str", "int"}] : n \in 0..MaxSymptoms}

\* ', '.join(symptoms) raises TypeError on an element that is not a str.
JoinRaises(syms) == \E i \in 1..Len(syms) : syms[i] # "str"

\* generate_report_via_llm: the collaborator's JSON object when one is
\* configured and its reply parses ("llm"), else the local report ("local"),
\* or the exception that leaves the function ("raise").
ReportViaLlm(configured, reply, syms) ==
    IF configured /\ reply = "json" THEN "llm"
    ELSE IF JoinRaises(syms) THEN "raise"
    ELSE "local"

\* generate_report_via_llm and the response of /generate_report.
ReportAssemble(r) ==
    /\ UNCHANGED <<avars, pvars>>
    /\ NoneDone /\ r \in running /\ pc[r] = "g_llm"
    /\ \E configured \in BOOLEAN, reply \in {"json", "nojson", "badjson", "raise"},
          syms \in SymptomLists :
         LET res == ReportViaLlm(configured, reply, syms)
         IN  /\ symptoms' = [symptoms EXCEPT ![r] = syms]
             /\ collab' = [collab EXCEPT ![r] = IF configured THEN reply ELSE "absent"]
             /\ report' = [report EXCEPT ![r] = res]
             /\ Respond(r, IF res = "raise" THEN 500 ELSE 200)
    /\ UNCHANGED <<envv, kind, cachev, hookv, camv, heat, loadFailed, peerCam>>

Next ==
    \E r \in Req :
        \/ Arrive(r) \/ LoopRun(r) \/ Reset(r)
        \/ InferStart(r) \/ InferOpen(r)
        \/ LoadCall(r) \/ LoadBody(r) \/ InferPredict(r)
        \/ ReportStart(r) \/ ReportPreprocess(r)
        \/ GradcamAttach(r) \/ GradcamForward(r) \/ GradcamBackward(r)
        \/ GradcamBuild(r) \/ GradcamFinally(r)
        \/ ReportComposite(r) \/ ReportPlaceholder(r) \/ ReportAssemble(r)

Spec == Init /\ [][Next]_vars

\* ------------------------------------------------------------ /analyze
\* analyze_skin_lesion has no await and shares no state with the other
\* handlers; SpecAnalyze checks it on its own. Probabilities are exact
\* fractions: a vector [num, den] has the components num[l] / den.
\* Confidence and the fallback's raw values are in hundredths.

MaxRaw == 1     \* raw tier values of a collaborator reply range over -1..MaxRaw

Tier1Labels == {"fungal", "inflammatory", "normal", "malignant", "benign"}
Tier2Labels == {"melanoma", "bcc", "eczema", "atopicDermatitis", "melanocyticNevi",
                "bkl", "psoriasis", "seborrheicKeratoses", "tinea", "warts"}

RECURSIVE SumOver(_, _)
SumOver(m, S) ==
    IF S = {} THEN 0 ELSE LET l == CHOOSE x \in S : TRUE IN m[l] + SumOver(m, S \ {l})

\* sum(tier.values())
Total(m) == SumOver(m, DOMAIN m)

\* `sum(tier.values()) or 1`, then every value divided by it.
Normalize(m) == [num |-> m, den |-> IF Total(m) = 0 THEN 1 ELSE Total(m)]

\* min(1.0, max(0.0, confidence))
ClampConfidence(c) ==
    LET lo == IF c < 0 THEN 0 ELSE c IN IF lo > 100 THEN 100 ELSE lo

\* Tier1Results(**tier) / Tier2Results(**tier): every field is required, keys
\* that are no field are ignored.
Validates(m, labels) == labels \subseteq DOMAIN m
Fields(v, labels) == [num |-> [l \in labels |-> v.num[l]], den |-> v.den]

\* random.uniform(lo, hi) per label, in hundredths.
Tier1Range == [fungal |-> <<5, 15>>, inflammatory |-> <<10, 25>>, normal |-> <<5, 20>>,
               malignant |-> <<10, 35>>, benign |-> <<20, 40>>]
Tier2Range == [melanoma |-> <<5, 25>>, bcc |-> <<5, 20>>, eczema |-> <<8, 18>>,
               atopicDermatitis |-> <<3, 10>>, melanocyticNevi |-> <<8, 15>>,
               bkl |-> <<5, 12>>, psoriasis |-> <<2, 8>>, seborrheicKeratoses |-> <<3, 10>>,
               tinea |-> <<2, 6>>, warts |-> <<1, 5>>]

\* The draws checked: each tier1 label at either end of its range; the tier2
\* labels all low, all high, or one label high and the others low.
Tier1Draws == {[l \in Tier1Labels |-> Tier1Range[l][IF l \in H THEN 2 ELSE 1]] :
                 H \in SUBSET Tier1Labels}
Tier2Draws == {[l \in Tier2Labels |-> Tier2Range[l][IF l \in H THEN 2 ELSE 1]] :
                 H \in {{}, Tier2Labels} \cup {{l} : l \in Tier2Labels}}

FallbackConfidence == 75
FallbackRecommendations == <<"dermatologist", "monitor", "photos", "sun">>

\* Fault: the raw values returned without dividing by their total.
FallbackVectorRaw(raw) == [num |-> raw, den |-> 100]

\* {k: v / total for k, v in raw.items()}
FallbackVector(raw) == [num |-> raw, den |-> Total(raw)]

\* get_fallback_analysis for the draws raw1, raw2.
GetFallbackAnalysis(raw1, raw2) ==
    [tier1 |-> FallbackVector(raw1), tier2 |-> FallbackVector(raw2),
     description |-> "simulated", recommendations |-> FallbackRecommendations,
     confidence |-> FallbackConfidence]

\* The raw tier maps of a collaborator reply: every label (with or without a
\* key that is no label), a label missing, or no map at all.
RawVals == -1..MaxRaw
Tier1Raws ==
    [Tier1Labels -> RawVals]
    \cup {[l \in Tier1Labels \cup {"other"} |-> IF l = "other" THEN 1 ELSE m[l]] :
            m \in [Tier1Labels -> RawVals]}
    \cup [Tier1Labels \ {"benign"} -> RawVals]
    \cup {<<>>}
Tier2Raws ==
    {[l \in Tier2Labels |-> IF l = "melanoma" THEN v ELSE w] : v, w \in RawVals}
    \cup {[l \in Tier2Labels \ {"warts"} |-> 1], <<>>}

\* parse_gemini_response: the exception it raises, or "none".
ParseRaises(reply) ==
    CASE reply = "nojson"     -> "ValueError"
      [] reply = "badjson"    -> "JSONDecodeError"
      [] reply = "nonnumeric" -> "TypeError"
      [] OTHER                -> "none"

\* parse_gemini_response on a reply whose JSON holds tier1, tier2, confidence.
ParseGeminiResponse(t1, t2, conf) ==
    [tier1 |-> Normalize(t1), tier2 |-> Normalize(t2),
     description |-> "parsed", recommendations |-> <<"consult">>,
     confidence |-> ClampConfidence(conf)]

\* Fault: a handler that recovers from ValueError and its subclasses only.
CaughtValueErrorOnly(e) == e \in {"binascii.Error", "ValueError", "JSONDecodeError", "ValidationError"}

\* `except Exception`: the exceptions the handler recovers from.
Caught(e) == TRUE

\* AnalysisResponse(success=True, tier1=Tier1Results(**...), ...)
AnalysisResponse(a, src, err) ==
    [kind |-> "result", src |-> src,
     tier1 |-> Fields(a.tier1, Tier1Labels), tier2 |-> Fields(a.tier2, Tier2Labels),
     ai_malignant_prob |-> <<a.tier1.num["malignant"], a.tier1.den>>,
     description |-> a.description, recommendations |-> a.recommendations,
     confidence |-> a.confidence, error |-> err]

AInit ==
    /\ aPc = "start" /\ aIn = NoIn /\ aCalls = 0 /\ aExc = "none" /\ aResp = NoResp
    /\ ld = NoLoad /\ tk = NoTopk
    /\ torch = TRUE
    /\ envPath = "missing.pth"
    /\ running = {}
    /\ pc = [r \in Req |-> "idle"]
    /\ kind = [r \in Req |-> "none"]
    /\ path = [r \in Req |-> NoPath]
    /\ model = [r \in Req |-> NoObj]
    /\ callInfo = [r \in Req |-> NoCall]
    /\ cachePath = NoPath
    /\ cacheObj = NoObj
    /\ nobj = 0
    /\ firstObj = [p \in Paths |-> NoObj]
    /\ lastLoad = [p |-> NoPath, obj |-> NoObj]
    /\ fhooks = [o \in Objs |-> {}]
    /\ bhooks = [o \in Objs |-> {}]
    /\ fmaps = [r \in Req |-> NoReq]
    /\ grads = [r \in Req |-> NoReq]
    /\ camExit = [r \in Req |-> "none"]
    /\ camFrom = [r \in Req |-> <<NoReq, NoReq>>]
    /\ heat = [r \in Req |-> "None"]
    /\ symptoms = [r \in Req |-> <<>>]
    /\ collab = [r \in Req |-> "none"]
    /\ report = [r \in Req |-> "none"]
    /\ status = [r \in Req |-> 0]
    /\ loadFailed = [r \in Req |-> FALSE]
    /\ peerCam = [r \in Req |-> NoObj]

\* configure_gemini; without a collaborator the fallback is returned at once.
\* Else the image is decoded and the collaborator called.
AnalyzeCall ==
    /\ aPc = "start"
    /\ \E configured \in BOOLEAN, image \in {"ok", "bad"},
          reply \in {"raise", "nojson", "badjson", "nonnumeric", "data"},
          t1 \in Tier1Raws, t2 \in Tier2Raws :
         /\ (configured /\ image = "ok" /\ reply = "data") \/ (t1 = <<>> /\ t2 = <<>>)
         /\ ~configured => (image = "ok" /\ reply = "raise")
         /\ image = "bad" => reply = "raise"
         /\ aIn' = [configured |-> configured, image |-> image, reply |-> reply,
                    tier1 |-> t1, tier2 |-> t2]
         /\ aCalls' = IF configured /\ image = "ok" THEN aCalls + 1 ELSE aCalls
         /\ aExc' = IF ~configured THEN "none"
                    ELSE IF image = "bad" THEN "binascii.Error"
                    ELSE IF reply = "raise" THEN "APIError"
                    ELSE ParseRaises(reply)
         /\ aPc' = IF ~configured THEN "fallback"
                   ELSE IF image = "ok" /\ reply = "data" THEN "called" ELSE "except"
    /\ UNCHANGED <<aResp, svars, pvars>>

\* The reply parsed, validated and returned.
AnalyzeParse ==
    /\ aPc = "called"
    /\ \E conf \in {-50, 70, 150} :       \* data.get("confidence", 0.7)
         LET a == ParseGeminiResponse(aIn.tier1, aIn.tier2, conf)
         IN  IF Validates(aIn.tier1, Tier1Labels) /\ Validates(aIn.tier2, Tier2Labels)
             THEN /\ aResp' = AnalysisResponse(a, "parsed", "none")
                  /\ aPc' = "done"
                  /\ UNCHANGED aExc
             ELSE /\ aExc' = "ValidationError"
                  /\ aPc' = "except"
                  /\ UNCHANGED aResp
    /\ aIn' = IF aPc' = "except" THEN [aIn EXCEPT !.tier1 = <<>>, !.tier2 = <<>>] ELSE aIn
    /\ UNCHANGED <<aCalls, svars, pvars>>

\* An exception left the try block: the handler recovers, or it propagates.
AnalyzeExcept ==
    /\ aPc = "except"
    /\ IF Caught(aExc)
       THEN aPc' = "fallback" /\ UNCHANGED aResp
       ELSE aPc' = "done" /\ aResp' = [kind |-> "error"]
    /\ UNCHANGED <<aIn, aCalls, aExc, svars, pvars>>

\* get_fallback_analysis and the response built from it.
AnalyzeFallback ==
    /\ aPc = "fallback"
    /\ \E raw1 \in Tier1Draws, raw2 \in Tier2Draws :
         aResp' = AnalysisResponse(GetFallbackAnalysis(raw1, raw2), "fallback", aExc)
    /\ aPc' = "done"
    /\ UNCHANGED <<aIn, aCalls, aExc, svars, pvars>>

\* The next request.
AnalyzeAgain ==
    /\ aPc = "done"
    /\ aPc' = "start" /\ aIn' = NoIn /\ aCalls' = 0 /\ aExc' = "none" /\ aResp' = NoResp
    /\ UNCHANGED <<svars, pvars>>

ANext == AnalyzeCall \/ AnalyzeParse \/ AnalyzeExcept \/ AnalyzeFallback \/ AnalyzeAgain

SpecAnalyze == AInit /\ [][ANext]_vars

\* ------------------------------------------------------------- claims

InGradcam(r) == pc[r] \in {"c_fwd", "c_bwd", "c_cam", "c_finally"}

\* C1: every hook present on a model's layer belongs to a compute_gradcam
\* call that is still between attaching its hooks and its finally block: once
\* a call has left - by return, by the no-capture error or by an exception of
\* the forward or backward pass - neither its forward nor its backward hook
\* is on the layer.
C1_HooksDetachedOnEveryExit ==
    \A o \in Objs : \A r \in fhooks[o] \cup bhooks[o] : InGradcam(r) /\ model[r] = o

\* A call left by an exception of the forward pass and the layer is clean.
C1_Witness ==
    \E r \in Req :
        /\ pc[r] = "g_placeholder" /\ camExit[r] = "fwd_raise"
        /\ fhooks[model[r]] = {} /\ bhooks[model[r]] = {}

\* C2: while one request executes the body of load_pytorch_model, no other
\* request executes anything - in particular not a second load body: the
\* others wait for their turn on the event loop.
C2_OneLoadInFlight ==
    \A r1, r2 \in Req :
        (r1 # r2 /\ pc[r1] = "load_body") => (pc[r2] # "load_body" /\ r2 \notin running)

\* Two /generate_report requests (same path) in flight, nothing cached, one
\* of them in the load body.
C2_Witness ==
    \E r1, r2 \in Req :
        /\ r1 # r2 /\ cachePath = NoPath
        /\ kind[r1] = "report" /\ kind[r2] = "report"
        /\ pc[r1] = "load_body" /\ pc[r2] = "ready"
        /\ LoadBodyResult(FileKind(path[r1])).ok

Returned(r) == callInfo[r].p # NoPath /\ model[r] # NoObj

\* C3 as claimed: a call for a path that was loaded successfully before
\* returns the object of that first load and does not read the file.
C3_LoadedOncePerPath ==
    \A r \in Req :
        (Returned(r) /\ callInfo[r].before # NoObj)
            => (model[r] = callInfo[r].before /\ ~callInfo[r].read)

\* C3 amended: a call for the path of the most recent successful load (no
\* load of another path succeeded since) returns that load's object and does
\* not read the file.
C3_LastLoadedIsReused ==
    \A r \in Req :
        (Returned(r) /\ callInfo[r].last # NoObj)
            => (model[r] = callInfo[r].last /\ ~callInfo[r].read)

\* A second call for the cached path, after two loads in the process.
C3_Witness ==
    \E r \in Req :
        /\ Returned(r) /\ callInfo[r].last # NoObj /\ model[r] = callInfo[r].last
        /\ nobj = 2

\* C4: the CAM of a call is built from the feature maps and gradients of
\* that call's own forward and backward pass.
C4_OwnCaptures ==
    \A r \in Req : camExit[r] = "ok" => camFrom[r] = <<r, r>>

\* Two requests in flight together both built a CAM on the same model object.
C4_Witness ==
    \E r \in Req :
        camExit[r] = "ok" /\ model[r] # NoObj /\ peerCam[r] = model[r]

\* C6 as claimed: a request whose load_pytorch_model call raised is answered
\* with a result (the fallback analysis), not with an error.
C6_LoadFailureFallsBack ==
    \A r \in Req : (pc[r] = "done" /\ loadFailed[r]) => status[r] = 200

\* C7 as claimed: every successful /generate_report response carries the CAM
\* overlay or the placeholder overlay.
C7_HeatmapNeverAbsent ==
    \A r \in Req :
        (pc[r] = "done" /\ kind[r] = "report" /\ status[r] = 200)
            => heat[r] \in {"cam", "placeholder", "original"}

\* C8 as claimed: generate_report_via_llm never raises, and returns the local
\* report when no collaborator is configured, when its reply holds no
\* parseable JSON object and when the collaborator path raised.
C8_AssembleNeverFails ==
    \A r \in Req :
        collab[r] # "none" =>
            /\ report[r] \in {"llm", "local"}
            /\ collab[r] \in {"absent", "nojson", "badjson", "raise"} => report[r] = "local"

\* The response is a result with both tier vectors over all their labels and
\* confidence, description and recommendations.
Complete(resp) ==
    /\ resp.kind = "result"
    /\ {"tier1", "tier2", "confidence", "description", "recommendations"} \subseteq DOMAIN resp
    /\ DOMAIN resp.tier1.num = Tier1Labels
    /\ DOMAIN resp.tier2.num = Tier2Labels
    /\ resp.confidence \in 0..100

\* C5: /analyze answers every request with a complete analysis result, and
\* with the fallback analysis when the collaborator is not configured or the
\* try block raised (image decode, collaborator call, no JSON, invalid JSON,
\* missing labels).
C5_AnalyzeAlwaysComplete ==
    aPc = "done" =>
        /\ Complete(aResp)
        /\ (~aIn.configured \/ aExc # "none") => aResp.src = "fallback"

\* A reply without all labels was answered with the fallback analysis.
C5_Witness ==
    aPc = "done" /\ aExc = "ValidationError" /\ aResp.kind = "result" /\ aResp.src = "fallback"

SumsToOne(v) == v.den # 0 /\ Total(v.num) = v.den
NonNegative(v) == \A l \in DOMAIN v.num : v.num[l] * v.den >= 0
Simplex(v) == SumsToOne(v) /\ NonNegative(v)

\* C9 as claimed: the tier vectors of every returned analysis result have
\* non-negative components that sum to 1.
C9_ReturnedVectorsOnSimplex ==
    (aPc = "done" /\ aResp.kind = "result") => (Simplex(aResp.tier1) /\ Simplex(aResp.tier2))

\* C10: the fallback analysis has a tier1 vector over the 5 labels and a tier2
\* vector over the 10 labels, each summing to 1, confidence 0.75 and the canned
\* recommendations, and the only collaborator call of the request is the one
\* the try block made before it.
C10_FallbackAlwaysSucceeds ==
    (aPc = "done" /\ aResp.kind = "result" /\ aResp.src = "fallback") =>
        /\ DOMAIN aResp.tier1.num = Tier1Labels /\ SumsToOne(aResp.tier1)
        /\ DOMAIN aResp.tier2.num = Tier2Labels /\ SumsToOne(aResp.tier2)
        /\ aResp.confidence = 75
        /\ aResp.recommendations = FallbackRecommendations
        /\ aCalls = IF aIn.configured /\ aIn.image = "ok" THEN 1 ELSE 0

\* The fallback analysis returned with no collaborator configured: no call.
C10_Witness ==
    /\ aPc = "done" /\ aResp.kind = "result" /\ aResp.src = "fallback"
    /\ ~aIn.configured /\ aCalls = 0
    /\ aResp.tier1.num["benign"] = 40 /\ aResp.tier2.num["warts"] = 5

\* ------------------------------------------- load_pytorch_model, step by step
MaxKeys == 2     \* entries of a state_dict

FileKinds == {"missing", "scripted", "corrupt", "module",
              "state_b0", "state_b2", "state_unknown", "other"}
StateKinds == {"state_b0", "state_b2", "state_unknown"}

\* An entry of a state_dict: whether its key ends with '.weight', and v.shape.
Tensors == [weight : BOOLEAN, shape : {<<7, 1280>>, <<3, 1280>>, <<32>>, <<7, 1>>}]

StateDicts == UNION {[1..n -> Tensors] : n \in 0..MaxKeys}

\* The files load_pytorch_model can be pointed at.
Files == {[kind |-> k, dict |-> d] : k \in FileKinds, d \in StateDicts}

DefaultNumClasses == 1000

\* k.endswith('.weight') and v.ndim == 2 and v.shape[1] > 1
IsClassifierWeight(t) == t.weight /\ Len(t.shape) = 2 /\ t.shape[2] > 1

\* num_classes: shape[0] of the first classifier-like weight, else the default.
InferNumClasses(d) ==
    IF \E i \in 1..Len(d) : IsClassifierWeight(d[i])
    THEN LET first == CHOOSE i \in 1..Len(d) :
                        /\ IsClassifierWeight(d[i])
                        /\ \A j \in 1..(i - 1) : ~IsClassifierWeight(d[j])
         IN d[first].shape[1]
    ELSE DefaultNumClasses

\* The exceptions torch.load raises on a file it cannot deserialize.
TorchLoadErrors == {"UnpicklingError", "EOFError", "RuntimeError"}

\* The call returned or raised: `by` is "loader" for an exception a `raise`
\* statement of load_pytorch_model made, "step" for one that came out of a step.
LoadReturn(st) == [ok |-> TRUE, step |-> st, err |-> "none", by |-> "none"]
LoadRaise(st, e, who) == [ok |-> FALSE, step |-> st, err |-> e, by |-> who]
NoResult == [ok |-> FALSE, step |-> 0, err |-> "none", by |-> "none"]

LoadDone(res) == ld' = [ld EXCEPT !.pc = "done", !.result = res]

LInit ==
    /\ \E f \in Files :
        /\ f.kind \notin StateKinds => f.dict = <<>>
        /\ ld = [pc |-> "start", file |-> f, steps |-> <<>>, numClasses |-> 0,
                 i |-> 0, result |-> NoResult]
    /\ tk = NoTopk
    /\ aPc = "off" /\ aIn = NoIn /\ aCalls = 0 /\ aExc = "none" /\ aResp = NoResp
    /\ torch \in BOOLEAN
    /\ envPath = "missing.pth"
    /\ running = {}
    /\ pc = [r \in Req |-> "idle"]
    /\ kind = [r \in Req |-> "none"]
    /\ path = [r \in Req |-> NoPath]
    /\ model = [r \in Req |-> NoObj]
    /\ callInfo = [r \in Req |-> NoCall]
    /\ cachePath = NoPath
    /\ cacheObj = NoObj
    /\ nobj = 0
    /\ firstObj = [p \in Paths |-> NoObj]
    /\ lastLoad = [p |-> NoPath, obj |-> NoObj]
    /\ fhooks = [o \in Objs |-> {}]
    /\ bhooks = [o \in Objs |-> {}]
    /\ fmaps = [r \in Req |-> NoReq]
    /\ grads = [r \in Req |-> NoReq]
    /\ camExit = [r \in Req |-> "none"]
    /\ camFrom = [r \in Req |-> <<NoReq, NoReq>>]
    /\ heat = [r \in Req |-> "None"]
    /\ symptoms = [r \in Req |-> <<>>]
    /\ collab = [r \in Req |-> "none"]
    /\ report = [r \in Req |-> "none"]
    /\ status = [r \in Req |-> 0]
    /\ loadFailed = [r \in Req |-> FALSE]
    /\ peerCam = [r \in Req |-> NoObj]

\* `if torch is None: raise`, then `if not os.path.exists(path): raise`.
LoadEnter ==
    /\ ld.pc = "start"
    /\ IF ~torch THEN LoadDone(LoadRaise(0, "RuntimeError", "loader"))
       ELSE IF ld.file.kind = "missing"
            THEN LoadDone(LoadRaise(0, "FileNotFoundError", "loader"))
            ELSE ld' = [ld EXCEPT !.pc = "jit"]
    /\ UNCHANGED <<svars, avars, tk>>

\* 1) torch.jit.load inside try / except Exception: pass.
LoadJit ==
    /\ ld.pc = "jit"
    /\ IF ld.file.kind = "scripted"
       THEN ld' = [ld EXCEPT !.pc = "done", !.steps = Append(@, 1),
                             !.result = LoadReturn(1)]
       ELSE ld' = [ld EXCEPT !.pc = "pickle", !.steps = Append(@, 1)]
    /\ UNCHANGED <<svars, avars, tk>>

\* 2) data = torch.load(path): a bare statement, its exception leaves the call.
\*    hasattr(data, 'eval') returns the module; a dict goes on to step 3;
\*    anything else fails step 3's isinstance test and reaches the final raise.
LoadPickle ==
    /\ ld.pc = "pickle"
    /\ \/ /\ ld.file.kind = "corrupt"
          /\ \E e \in TorchLoadErrors :
                ld' = [ld EXCEPT !.pc = "done", !.steps = Append(@, 2),
                                 !.result = LoadRaise(2, e, "step")]
       \/ /\ ld.file.kind = "module"
          /\ ld' = [ld EXCEPT !.pc = "done", !.steps = Append(@, 2),
                              !.result = LoadReturn(2)]
       \/ /\ ld.file.kind \in StateKinds
          /\ ld' = [ld EXCEPT !.pc = "classes", !.steps = Append(@, 2)]
       \/ /\ ld.file.kind = "other"
          /\ ld' = [ld EXCEPT !.pc = "done", !.steps = Append(@, 2),
                              !.result = LoadRaise(3, "RuntimeError", "loader")]
    /\ UNCHANGED <<svars, avars, tk>>

\* 3) the state_dict: num_classes is read off it (timm is not None here: it
\*    is imported in the block that imports torch).
LoadNumClasses ==
    /\ ld.pc = "classes"
    /\ ld' = [ld EXCEPT !.pc = "variant", !.steps = Append(@, 3),
                        !.numClasses = InferNumClasses(ld.file.dict), !.i = 1]
    /\ UNCHANGED <<svars, avars, tk>>

\* `for name in tried`: create_model + load_state_dict inside try / except.
LoadVariant ==
    /\ ld.pc = "variant"
    /\ IF VariantFits(ld.file.kind, tried[ld.i])
       THEN LoadDone(LoadReturn(3))
       ELSE IF ld.i < Len(tried)
            THEN ld' = [ld EXCEPT !.i = @ + 1]
            ELSE LoadDone(LoadRaise(3, "RuntimeError", "loader"))
    /\ UNCHANGED <<svars, avars, tk>>

LNext == LoadEnter \/ LoadJit \/ LoadPickle \/ LoadNumClasses \/ LoadVariant

SpecLoad == LInit /\ [][LNext]_vars

\* Claim C11: the three steps are tried in order and the first success wins;
\* the failure of any step, the deserialization of step 2 included, is swallowed
\* and the next step is tried, and a call fails only after all steps failed,
\* with the loader's own error (for a file that exists, with torch installed).
C11_StepFailuresSwallowed ==
    (ld.pc = "done" /\ torch /\ ld.file.kind # "missing") =>
        /\ ld.result.ok => ld.result.step = LoadBodyResult(ld.file.kind).step
        /\ ~ld.result.ok =>
            /\ ld.result.by = "loader"
            /\ ld.file.kind = "corrupt" => ld.steps = <<1, 2, 3>>

\* ------------------------------------- predict_from_pil_image: the top-k list
MaxClasses == 3  \* classes of the model (length of probs)
MaxWeight == 2   \* distinct probability levels

\* probs: class index -> probability, as a weight over the vector's sum (the
\* softmax output is positive; equal weights are equal probabilities).
ProbVectors == UNION {[0..(c - 1) -> 1..MaxWeight] : c \in 1..MaxClasses}

\* topk is an unvalidated int query parameter.
TopkValues == -1..(MaxClasses + 1)

Classes(p) == DOMAIN p
NumClasses(p) == Cardinality(DOMAIN p)

\* np.argsort(probs): the index orders that sort probs ascending. The default
\* kind is not stable, so equal probabilities may come out in any order.
ArgSorts(p) ==
    {s \in [1..NumClasses(p) -> Classes(p)] :
        /\ \A i, j \in 1..NumClasses(p) : i # j => s[i] # s[j]
        /\ \A i \in 1..(NumClasses(p) - 1) : p[s[i]] <= p[s[i + 1]]}

\* s[::-1]
Reversed(s) == [i \in 1..Len(s) |-> s[Len(s) + 1 - i]]

\* s[:k], for k of either sign
SliceTo(s, k) ==
    LET n == IF k >= 0 THEN (IF k < Len(s) THEN k ELSE Len(s))
             ELSE (IF Len(s) + k > 0 THEN Len(s) + k ELSE 0)
    IN SubSeq(s, 1, n)

\* [{'class_index': int(i), 'probability': float(probs[i])} for i in idxs]
Entries(p, idxs) ==
    [n \in 1..Len(idxs) |-> [class_index |-> idxs[n], probability |-> p[idxs[n]]]]

TInit ==
    /\ \E p \in ProbVectors, k \in TopkValues :
        tk = [pc |-> "start", probs |-> p, topk |-> k, idxs |-> <<>>, out |-> <<>>]
    /\ ld = NoLoad
    /\ aPc = "off" /\ aIn = NoIn /\ aCalls = 0 /\ aExc = "none" /\ aResp = NoResp
    /\ torch = TRUE
    /\ envPath = "missing.pth"
    /\ running = {}
    /\ pc = [r \in Req |-> "idle"]
    /\ kind = [r \in Req |-> "none"]
    /\ path = [r \in Req |-> NoPath]
    /\ model = [r \in Req |-> NoObj]
    /\ callInfo = [r \in Req |-> NoCall]
    /\ cachePath = NoPath
    /\ cacheObj = NoObj
    /\ nobj = 0
    /\ firstObj = [p \in Paths |-> NoObj]
    /\ lastLoad = [p |-> NoPath, obj |-> NoObj]
    /\ fhooks = [o \in Objs |-> {}]
    /\ bhooks = [o \in Objs |-> {}]
    /\ fmaps = [r \in Req |-> NoReq]
    /\ grads = [r \in Req |-> NoReq]
    /\ camExit = [r \in Req |-> "none"]
    /\ camFrom = [r \in Req |-> <<NoReq, NoReq>>]
    /\ heat = [r \in Req |-> "None"]
    /\ symptoms = [r \in Req |-> <<>>]
    /\ collab = [r \in Req |-> "none"]
    /\ report = [r \in Req |-> "none"]
    /\ status = [r \in Req |-> 0]
    /\ loadFailed = [r \in Req |-> FALSE]
    /\ peerCam = [r \in Req |-> NoObj]

\* np.argsort(probs)
TopkArgsort ==
    /\ tk.pc = "start"
    /\ \E s \in ArgSorts(tk.probs) : tk' = [tk EXCEPT !.pc = "sorted", !.idxs = s]
    /\ UNCHANGED <<svars, avars, ld>>

\* [::-1][:topk]
TopkSlice ==
    /\ tk.pc = "sorted"
    /\ tk' = [tk EXCEPT !.pc = "sliced", !.idxs = SliceTo(Reversed(tk.idxs), tk.topk)]
    /\ UNCHANGED <<svars, avars, ld>>

\* the returned list
TopkReturn ==
    /\ tk.pc = "sliced"
    /\ tk' = [tk EXCEPT !.pc = "done", !.out = Entries(tk.probs, tk.idxs)]
    /\ UNCHANGED <<svars, avars, ld>>

TNext == TopkArgsort \/ TopkSlice \/ TopkReturn

SpecTopk == TInit /\ [][TNext]_vars

MinOf(a, b) == IF a < b THEN a ELSE b

\* Claim C12: for every probability vector of length C and every requested k
\* (a count, k >= 0) the returned list has exactly min(k, C) entries, with
\* distinct class indices, in descending probability, equal probabilities in
\* ascending class index.
C12_TopkAscendingTies ==
    tk.pc = "done" =>
        /\ tk.topk >= 0 => Len(tk.out) = MinOf(tk.topk, NumClasses(tk.probs))
        /\ \A i, j \in 1..Len(tk.out) :
            i < j =>
                /\ tk.out[i].class_index # tk.out[j].class_index
                /\ tk.out[i].probability >= tk.out[j].probability
                /\ tk.out[i].probability = tk.out[j].probability =>
                       tk.out[i].class_index < tk.out[j].class_index

\* The vector's components are the raw map's values: num[l] / den = raw[l].
SameAsRaw(raw, v) == \A l \in DOMAIN v.num : v.num[l] = raw[l] * v.den

\* Claim C13: the tier normalization of parse_gemini_response leaves every
\* component of a raw map unchanged whenever the map's total is <= 0, for
\* all-zero maps and for maps of negative total alike.
C13_NonPositiveTotalUnchanged ==
    (aPc = "done" /\ aResp.kind = "result" /\ aResp.src = "parsed") =>
        /\ Total(aIn.tier1) <= 0 => SameAsRaw(aIn.tier1, aResp.tier1)
        /\ Total(aIn.tier2) <= 0 => SameAsRaw(aIn.tier2, aResp.tier2)

\* The request is inside the forward pass of predict_from_pil_image, or inside
\* the forward / backward pass of compute_gradcam.
InPass(r) == pc[r] \in {"i_predict", "c_fwd", "c_bwd"}

\* Claim C14: the forward pass of /infer and the forward/backward pass of
\* Grad-CAM run off the event-loop thread, so that while one request's pass is
\* in progress the event loop can still start the handler of another request.
C14_PassesOffTheEventLoop ==
    \A r \in Req :
        InPass(r) =>
            \A q \in Req \ {r} :
                (NoneDone /\ pc[q] \in Runnable) => ENABLED LoopRun(q)
====
